---- MODULE Spec2Model ----
(***************************************************************************)
(* A model of the retrieval core of the Q&A RAG system:                    *)
(*   - FAISSStore (src/src/vectorstore/faiss_store.py): a flat exact L2    *)
(*     index with a parallel metadata list and two persisted artifacts;    *)
(*   - RAGSystem  (src/src/rag_system.py): ingest, query, query_structured *)
(*     and clear_index on top of the store, the embedder and the LLM       *)
(*     client (src/src/llm/llama3_client.py).                              *)
(*                                                                         *)
(* Spec        is one store object called directly, with any argument      *)
(*             lists (add_embeddings, similarity_search, clear).           *)
(* SpecPersist is the store and its two persisted artifacts (construction, *)
(*             save, clear, single-record adds, lost or damaged files),    *)
(*             at an index_path with or without a directory part.          *)
(* SpecRag     is the store used through RAGSystem only.                   *)
(* SpecIngest  is ingestion over every directory content.                  *)
(* SpecChunk   is DocumentProcessor.split_into_chunks on a loaded text     *)
(*             (src/src/utils/document_processor.py).                      *)
(* SpecRace    is two processes that load, change and save the store at    *)
(*             one persistence location, with no lock between them.        *)
(* SpecInterleaved is SpecRace held to one interleaving of the processes.  *)
(***************************************************************************)
EXTENDS Integers, Sequences, FiniteSets, TLC

VARIABLES
    index,      \* self.index: the vectors of the IndexFlatL2, in insertion order
    metadata,   \* self.metadata: the list of records
    index_path, \* self.index_path, the list of the path's components
    fileIndex,  \* the artifact at index_path
    fileMeta,   \* the artifact at index_path + ".json"
    result,     \* what the last operation returned or raised
    calls,      \* the collaborator calls the last operation made, in order
    workers     \* the processes that share the persistence location, each
                \* with the store it holds in memory and how far it has got

vars ==
    <<index_path, index, metadata, fileIndex, fileMeta, result, calls, workers>>

---------------------------------------------------------------------------
(* Bounds and input domains                                                *)

\* most vectors the index and most records the metadata list hold (a cap in
\* the guards of the actions that add)
MaxVectors == 2

\* longest list passed as texts, embeddings or metadatas in one call
MaxBatch == MaxVectors

\* largest k / top_k passed to a search: one more than the index can hold
MaxK == MaxVectors + 1

\* vector_dim, the constructor's parameter, instantiated for the model
VectorDim == 1

\* settings.TOP_K_RESULTS
TOP_K_RESULTS == 3

\* the slice bound of the source preview, chunk["text"][:200]
PreviewLen == 200

Coords == {0, 1, 2}

\* all vectors of dimension d over Coords (exact in float32)
VecsOfDim(d) == [1..d -> Coords]

\* the vectors of the store's dimension
Vectors == VecsOfDim(VectorDim)

ZeroVec(d) == [i \in 1..d |-> 0]

\* the vectors the embedder returns for the texts and questions it is given
Embeddings == {ZeroVec(VectorDim), [i \in 1..VectorDim |-> 1]}

\* rows a caller may pass as one embedding: the right dimension, or one more
Rows == Embeddings \cup {ZeroVec(VectorDim + 1)}

\* a str is kept run-length encoded: a sequence of runs of one character
Run(c, n) == [c |-> c, n |-> n]

\* the str of n characters c
Chars(n, c) == IF n = 0 THEN <<>> ELSE <<Run(c, n)>>

RECURSIVE StrLen(_)
\* len(text)
StrLen(text) == IF text = <<>> THEN 0 ELSE Head(text).n + StrLen(Tail(text))

RECURSIVE Prefix(_, _)
\* text[:n]
Prefix(text, n) ==
    IF text = <<>> \/ n = 0 THEN <<>>
    ELSE LET h == Head(text) IN
         IF h.n <= n THEN <<h>> \o Prefix(Tail(text), n - h.n)
         ELSE <<Run(h.c, n)>>

RECURSIVE Drop(_, _)
\* text[n:]
Drop(text, n) ==
    IF text = <<>> \/ n = 0 THEN text
    ELSE LET h == Head(text) IN
         IF h.n <= n THEN Drop(Tail(text), n - h.n)
         ELSE <<Run(h.c, h.n - n)>> \o Tail(text)

\* the runs of text in reverse order
Reverse(text) == [i \in 1..Len(text) |-> text[Len(text) + 1 - i]]

\* text[:-n], for n > 0
DropLast(text, n) == Reverse(Drop(Reverse(text), n))

\* text[a:-b]
Slice(text, a, b) == DropLast(Drop(text, a), b)

\* text.startswith(prefix)
StartsWith(text, prefix) == Prefix(text, StrLen(prefix)) = prefix

\* the characters str.strip() and the regular expression's \s take as blank
Whitespace == {" ", "\n"}

RECURSIVE LStrip(_)
\* text.lstrip()
LStrip(text) ==
    IF text = <<>> THEN <<>>
    ELSE IF Head(text).c \in Whitespace THEN LStrip(Tail(text)) ELSE text

\* text.strip()
Strip(text) == Reverse(LStrip(Reverse(LStrip(text))))

\* settings.VECTOR_STORE_PATH: BASE_DIR / "data/vector_store.faiss"
VECTOR_STORE_PATH == <<"BASE_DIR", "data", "vector_store.faiss">>

\* an index_path with no directory part: "store.faiss"
BarePath == <<"store.faiss">>

\* the index_path a store is constructed with
IndexPaths == {VECTOR_STORE_PATH, BarePath}

ShortText == Chars(1, "a")
LongText == Chars(PreviewLen + 1, "b")

\* chunk texts: one shorter than the preview bound and one longer
ChunkTexts == {ShortText, LongText}

\* the texts passed to the store directly
Texts == {ShortText}

\* marks a key a dict does not have, where the key's values are strs
NoKey == "<absent>"

\* the keys of a stored record in insertion order: {'text', 'index',
\* **metadata}, the metadata's keys in the order the chunker inserts them
RecordKeys ==
    <<"text", "index", "chunk_id", "length", "document_id", "document_path",
      "document_name">>

\* what a record holds under a key its dict does not have: a value of the
\* key's type that no value of the key equals
Absent(key) ==
    IF key \in {"document_id", "document_name"} THEN NoKey
    ELSE IF key = "length" THEN -1
    ELSE <<>>

\* the value of a dict (a function on its keys) under a key
Get(dict, key) == IF key \in DOMAIN dict THEN dict[key] ELSE Absent(key)

\* {}
EmptyDict == [key \in {} |-> NoKey]

DocName == "a.txt"

\* the metadata dict a caller passes with a text: {"document_name": ...}
MetaDicts == {[document_name |-> DocName]}

\* sequences over S of length 0..n
SeqsUpTo(S, n) == UNION {[1..m -> S] : m \in 0..n}

\* the metadatas argument: None, or a list of dicts
None == [given |-> FALSE, list |-> <<>>]
Some(list) == [given |-> TRUE, list |-> list]

Min(a, b) == IF a <= b THEN a ELSE b

Range(s) == {s[i] : i \in DOMAIN s}

---------------------------------------------------------------------------
(* Result records                                                          *)

\* a result: op, status ("ok" or the exception raised), and the payload
Res(op, status, value) == [op |-> op, status |-> status, value |-> value]

NoResult == Res("__init__", "ok", <<>>)

---------------------------------------------------------------------------
(* The persisted artifacts                                                 *)

Missing == [state |-> "missing", data |-> <<>>]
\* a file of size characters that its reader cannot read
Unreadable(size) == [state |-> "corrupt", data |-> <<>>, size |-> size]
Corrupt == Unreadable(0)
Valid(d) == [state |-> "valid", data |-> d]

\* json.dump of one record: the members of the keys the dict has, in insertion
\* order
JsonObject(rec) ==
    LET has(key) == key \in {"text", "index"} \/ rec[key] # Absent(key)
        keys == SelectSeq(RecordKeys, has)
    IN [i \in 1..Len(keys) |-> <<keys[i], rec[keys[i]]>>]

\* json.dump(self.metadata, f)
JsonDump(meta) == [i \in 1..Len(meta) |-> JsonObject(meta[i])]

HasMember(obj, key) == \E i \in 1..Len(obj) : obj[i][1] = key

Member(obj, key) == obj[CHOOSE i \in 1..Len(obj) : obj[i][1] = key][2]

\* json.load of one object back into a dict
JsonRecord(obj) ==
    LET value(key) == IF HasMember(obj, key) THEN Member(obj, key)
                                             ELSE Absent(key)
    IN [text |-> Member(obj, "text"),
        index |-> Member(obj, "index"),
        chunk_id |-> value("chunk_id"),
        length |-> value("length"),
        document_id |-> value("document_id"),
        document_path |-> value("document_path"),
        document_name |-> value("document_name")]

\* json.load(f)
JsonLoad(doc) == [i \in 1..Len(doc) |-> JsonRecord(doc[i])]

RECURSIVE Digits(_)
\* len(str(n)), for n >= 0
Digits(n) == IF n < 10 THEN 1 ELSE 1 + Digits(n \div 10)

RECURSIVE JsonStrLen(_)
\* the characters json.dump writes for a str: the quotes, and a line end as
\* the two characters of its escape
JsonStrLen(text) ==
    IF text = <<>> THEN 2
    ELSE Head(text).n * (IF Head(text).c = "\n" THEN 2 ELSE 1)
            + JsonStrLen(Tail(text))

\* the characters json.dump writes for the value of a key: a chunk_id is an
\* md5 hexdigest of 32 characters, a document_path <<parent, name>> is the
\* directory, the separator and the file's name
ValueLen(key, value) ==
    IF key = "text" THEN JsonStrLen(value)
    ELSE IF key \in {"index", "length"} THEN Digits(value)
    ELSE IF key = "chunk_id" THEN 32 + 2
    ELSE IF key = "document_path"
    THEN StrLen(value[1]) + 1 + Len(value[2]) + 2
    ELSE Len(value) + 2

\* the characters of one member: "key": value
MemberLen(member) == Len(member[1]) + 4 + ValueLen(member[1], member[2])

RECURSIVE JoinedLen(_)
\* the characters of ", ".join of parts of the lengths lens
JoinedLen(lens) ==
    IF lens = <<>> THEN 0
    ELSE Head(lens) + (IF Len(lens) > 1 THEN 2 ELSE 0) + JoinedLen(Tail(lens))

\* the characters of one object, braces included
ObjectLen(obj) == 2 + JoinedLen([i \in 1..Len(obj) |-> MemberLen(obj[i])])

\* the characters json.dump(self.metadata, f) writes
DumpLen(doc) == 2 + JoinedLen([i \in 1..Len(doc) |-> ObjectLen(doc[i])])

\* the characters the sidecar holds
SidecarSize(fm) ==
    IF fm.state = "valid" THEN DumpLen(fm.data)
    ELSE IF fm.state = "missing" THEN 0
    ELSE fm.size

---------------------------------------------------------------------------
(* FAISSStore                                                              *)

\* index.ntotal
ntotal == Len(index)

\* faiss.IndexFlatL2(self.vector_dim)
NewIndex == <<>>

\* _load_index: the store [index, metadata] read from the two artifacts
LoadIndex(fi, fm) ==
    IF fi.state = "corrupt"
    THEN [index |-> NewIndex, metadata |-> <<>>]
    ELSE IF fm.state = "missing"
    THEN [index |-> fi.data, metadata |-> <<>>]
    ELSE IF fm.state = "corrupt"
    THEN [index |-> NewIndex, metadata |-> <<>>]
    ELSE [index |-> fi.data, metadata |-> JsonLoad(fm.data)]

\* _initialize_index, after __init__ set self.metadata = []
InitializeIndex(fi, fm) ==
    IF fi.state # "missing"
    THEN LoadIndex(fi, fm)
    ELSE [index |-> NewIndex, metadata |-> <<>>]

\* FAISSStore(vector_dim, index_path)
Construct ==
    LET s == InitializeIndex(fileIndex, fileMeta) IN
    /\ index' = s.index
    /\ metadata' = s.metadata
    /\ result' = NoResult
    /\ calls' = <<>>
    /\ UNCHANGED <<fileIndex, fileMeta>>
    /\ UNCHANGED <<index_path, workers>>

\* the two artifacts save() writes
SavedIndex(idx) == Valid(idx)
SavedMeta(meta) == Valid(JsonDump(meta))

\* os.path.dirname(self.index_path): the path without its last component
Dirname(path) == SubSeq(path, 1, Len(path) - 1)

FileNotFoundError == "FileNotFoundError"

\* os.makedirs(name, exist_ok=True): the empty name is no directory
Makedirs(name) == IF name = <<>> THEN FileNotFoundError ELSE "ok"

\* save() of the store [idx, meta] at path: how it ends and what it leaves of
\* the artifacts fi and fm; self.index is never None once the store is
\* constructed
SaveTo(path, idx, meta, fi, fm) ==
    IF Makedirs(Dirname(path)) # "ok"
    THEN [status |-> Makedirs(Dirname(path)), fileIndex |-> fi, fileMeta |-> fm]
    ELSE [status |-> "ok", fileIndex |-> SavedIndex(idx),
          fileMeta |-> SavedMeta(meta)]

\* save()
Save ==
    LET sv == SaveTo(index_path, index, metadata, fileIndex, fileMeta) IN
    /\ fileIndex' = sv.fileIndex
    /\ fileMeta' = sv.fileMeta
    /\ result' = Res("save", sv.status, <<>>)
    /\ calls' = <<>>
    /\ UNCHANGED <<index, metadata>>
    /\ UNCHANGED <<index_path, workers>>

\* np.array(embeddings).astype('float32') on rows of different lengths
InhomogeneousShape == "ValueError: inhomogeneous shape"

\* the assert d == self.d of index.add in faiss's Python wrapper: raised only
\* by an interpreter that runs assert statements (not under python -O)
FaissAssertion == "AssertionError"

\* the ValueError add_embeddings raises itself
DimensionMismatch == "ValueError: Dimensionality mismatch"

\* np.array(embeddings) has a second axis (the rows have one common length)
Uniform(embeddings) ==
    \A i, j \in 1..Len(embeddings) : Len(embeddings[i]) = Len(embeddings[j])

\* embeddings_np.shape[1]
Shape1(embeddings) == Len(embeddings[1])

\* metadatas, with None replaced by one {} per text
MetadatasOrDefault(texts, metadatas) ==
    IF ~metadatas.given
    THEN [i \in 1..Len(texts) |-> EmptyDict]
    ELSE metadatas.list

\* the records appended for zip(texts, metadatas), once the index holds n vectors
NewRecords(n, texts, metadatas) ==
    [i \in 1..Min(Len(texts), Len(metadatas)) |->
        [text |-> texts[i],
         index |-> n - Len(texts) + (i - 1),
         chunk_id |-> Get(metadatas[i], "chunk_id"),
         length |-> Get(metadatas[i], "length"),
         document_id |-> Get(metadatas[i], "document_id"),
         document_path |-> Get(metadatas[i], "document_path"),
         document_name |-> Get(metadatas[i], "document_name")]]

RECURSIVE Flat(_)
\* the floats of embeddings_np in memory, row after row
Flat(embeddings) ==
    IF embeddings = <<>> THEN <<>>
    ELSE Head(embeddings) \o Flat(Tail(embeddings))

\* index.add(embeddings_np) with no check of the second axis: the index reads
\* shape[0] vectors of vector_dim floats each from the start of the array
\* (rows are never shorter than vector_dim here, so the read stays inside it)
AddUnchecked(idx, embeddings) ==
    LET flat == Flat(embeddings) IN
    idx \o [i \in 1..Len(embeddings) |->
               SubSeq(flat, (i - 1) * VectorDim + 1, i * VectorDim)]

\* add_embeddings on the store [idx, meta]: the store afterwards and the
\* outcome. A first batch goes to index.add with no check by add_embeddings;
\* asserts tells whether the interpreter runs the wrapper's assert
AddEmbeddingsWith(asserts, idx, meta, texts, embeddings, metadatas) ==
    LET same == [index |-> idx, metadata |-> meta] IN
    IF texts = <<>> \/ embeddings = <<>>
    THEN same @@ [status |-> "ok"]
    ELSE IF ~Uniform(embeddings)
    THEN same @@ [status |-> InhomogeneousShape]
    ELSE IF Len(idx) = 0 /\ Shape1(embeddings) # VectorDim /\ asserts
    THEN same @@ [status |-> FaissAssertion]
    ELSE IF Len(idx) # 0 /\ Shape1(embeddings) # VectorDim
    THEN same @@ [status |-> DimensionMismatch]
    ELSE LET added == AddUnchecked(idx, embeddings) IN
         [index |-> added,
          metadata |-> meta \o NewRecords(Len(added), texts,
                                          MetadatasOrDefault(texts, metadatas)),
          status |-> "ok"]

\* add_embeddings with embeddings of the store's dimension, as ingestion
\* passes them: the wrapper's assert holds whether it runs or not
AddEmbeddingsTo(idx, meta, texts, embeddings, metadatas) ==
    AddEmbeddingsWith(TRUE, idx, meta, texts, embeddings, metadatas)

\* add_embeddings(texts, embeddings, metadatas)
AddEmbeddings(asserts, texts, embeddings, metadatas) ==
    LET s == AddEmbeddingsWith(asserts, index, metadata, texts, embeddings,
                               metadatas)
    IN
    /\ Len(index) + Len(embeddings) <= MaxVectors
    /\ Len(metadata) + Len(texts) <= MaxVectors
    /\ index' = s.index
    /\ metadata' = s.metadata
    /\ result' = Res("add_embeddings", s.status, <<>>)
    /\ calls' = <<>>
    /\ UNCHANGED <<fileIndex, fileMeta>>
    /\ UNCHANGED <<index_path, workers>>

\* clear()
Clear ==
    /\ index' = NewIndex
    /\ metadata' = <<>>
    /\ result' = Res("clear", "ok", <<>>)
    /\ calls' = <<>>
    /\ UNCHANGED <<fileIndex, fileMeta>>
    /\ UNCHANGED <<index_path, workers>>

\* squared L2 distance
L2Sqr(u, v) == LET d(i) == u[i] - v[i]
                   RECURSIVE sum(_)
                   sum(i) == IF i = 0 THEN 0 ELSE d(i) * d(i) + sum(i - 1)
               IN sum(Len(u))

\* position p of the index comes before position r for the query
Before(idx, query, p, r) ==
    \/ L2Sqr(idx[p + 1], query) < L2Sqr(idx[r + 1], query)
    \/ L2Sqr(idx[p + 1], query) = L2Sqr(idx[r + 1], query) /\ p <= r

RECURSIVE Ranked(_, _, _)
\* the positions in S (zero-based), nearest to the query first
Ranked(idx, query, S) ==
    IF S = {} THEN <<>>
    ELSE LET p == CHOOSE x \in S : \A r \in S : Before(idx, query, x, r)
         IN <<p>> \o Ranked(idx, query, S \ {p})

\* index.search(query_np, k): k pairs [idx, distance], nearest first, padded
\* with idx -1 when the index holds fewer than k vectors (the distance of a
\* padding pair is never read)
IndexSearch(idx, query, k) ==
    LET order == Ranked(idx, query, 0..(Len(idx) - 1)) IN
    [i \in 1..k |->
        IF i <= Len(order)
        THEN [idx |-> order[i], distance |-> L2Sqr(idx[order[i] + 1], query)]
        ELSE [idx |-> -1, distance |-> -1]]

\* metadata[idx].copy() with result['score'] = float(distance)
Scored(rec, distance) ==
    [text |-> rec.text, index |-> rec.index, chunk_id |-> rec.chunk_id,
     length |-> rec.length, document_id |-> rec.document_id,
     document_path |-> rec.document_path,
     document_name |-> rec.document_name, score |-> distance]

RECURSIVE Collect(_, _)
\* the loop over zip(indices[0], distances[0]), skipping labels outside metadata
Collect(meta, found) ==
    IF found = <<>> THEN <<>>
    ELSE LET f == Head(found) IN
         (IF f.idx < 0 \/ f.idx >= Len(meta) THEN <<>>
          ELSE <<Scored(meta[f.idx + 1], f.distance)>>)
         \o Collect(meta, Tail(found))

\* similarity_search(query_embedding, k) on the store [idx, meta]
SimilaritySearchIn(idx, meta, query, k) ==
    IF Len(idx) = 0 THEN <<>>
    ELSE Collect(meta, IndexSearch(idx, query, k))

\* similarity_search(query_embedding, k)
SimilaritySearch(query, k) ==
    /\ result' = Res("similarity_search", "ok",
                     <<query, k, SimilaritySearchIn(index, metadata, query, k)>>)
    /\ calls' = <<>>
    /\ UNCHANGED <<index, metadata, fileIndex, fileMeta>>
    /\ UNCHANGED <<index_path, workers>>

---------------------------------------------------------------------------
(* Llama3Client                                                            *)

\* what a call of a Python function hands back: a str, or a generator object
\* that has not run any of the function's body yet
Str(text) == [type |-> "str", text |-> text]
GeneratorObject(prompt) == [type |-> "generator", text |-> <<>>]

\* generate(prompt, stream=False): the body holds a yield, so the call returns
\* a generator object over the prompt and runs nothing of the body
Generate(prompt) == GeneratorObject(prompt)

\* the backquote character, written by name
Backquote == "backquote"

\* the opening fences generate_structured cuts: three backquotes, with and
\* without json after them
Fence == <<Run(Backquote, 3)>>
JsonFence == Fence \o <<Run("j", 1), Run("s", 1), Run("o", 1), Run("n", 1)>>

\* the JSON document of the replies: "{}"
EmptyObjectText == <<Run("{", 1), Run("}", 1)>>

\* the replies of the model, the content of its chat message: the empty
\* object, text that is not JSON, and the empty object inside json fences
\* with a line end after them and inside plain fences
JsonReply == EmptyObjectText
TextReply == <<Run("n", 1), Run("o", 1)>>
FencedJsonReply == JsonFence \o EmptyObjectText \o Fence \o <<Run("\n", 1)>>
FencedReply == Fence \o EmptyObjectText \o Fence
Replies == {JsonReply, TextReply, FencedJsonReply, FencedReply}

\* json.loads(text) raises json.JSONDecodeError: over the replies above, the
\* text is a JSON document only when it is "{}" inside optional blanks
JSONDecodeError(text) == Strip(text) # EmptyObjectText

\* response_text after the fences are cut
CutFences(content) ==
    LET response_text == Strip(content) IN
    IF StartsWith(response_text, JsonFence) THEN Slice(response_text, 7, 3)
    ELSE IF StartsWith(response_text, Fence) THEN Slice(response_text, 3, 3)
    ELSE response_text

\* generate_structured(prompt, response_format), reply being the content of
\* the model's chat message
GenerateStructured(prompt, reply) ==
    IF ~JSONDecodeError(CutFences(reply))
    THEN [type |-> "parsed", error |-> NoKey, raw_response |-> Str(<<>>)]
    ELSE [type |-> "fallback",
          error |-> "Failed to generate structured response",
          raw_response |-> Generate(prompt)]

---------------------------------------------------------------------------
(* DocumentProcessor                                                       *)

\* a + b for two strs, kept run-length encoded
Cat(a, b) ==
    IF a # <<>> /\ b # <<>> /\ a[Len(a)].c = Head(b).c
    THEN SubSeq(a, 1, Len(a) - 1)
             \o <<Run(Head(b).c, a[Len(a)].n + Head(b).n)>> \o Tail(b)
    ELSE a \o b

RECURSIVE Join(_, _)
\* sep.join(parts)
Join(parts, sep) ==
    IF parts = <<>> THEN <<>>
    ELSE IF Len(parts) = 1 THEN parts[1]
    ELSE Cat(Cat(parts[1], sep), Join(Tail(parts), sep))

\* the separators: '\n\n' between paragraphs, ' ' between sentences
ParagraphBreak == <<Run("\n", 2)>>
Space == <<Run(" ", 1)>>

NonEmpty(text) == text # <<>>

RECURSIVE SplitBreaks(_, _)
\* text.split('\n\n'), piece being the part of the current piece read so far:
\* a run of n line ends holds n \div 2 separators, read from the left, and an
\* odd one leaves a line end at the start of the next piece
SplitBreaks(text, piece) ==
    IF text = <<>> THEN <<piece>>
    ELSE LET h == Head(text) IN
         IF h.c = "\n" /\ h.n >= 2
         THEN <<piece>> \o [i \in 1..((h.n \div 2) - 1) |-> <<>>]
                  \o SplitBreaks(Tail(text), Chars(h.n % 2, "\n"))
         ELSE SplitBreaks(Tail(text), Append(piece, h))

\* [p.strip() for p in text.split('\n\n') if p.strip()]
ParagraphsOf(text) ==
    LET pieces == SplitBreaks(text, <<>>) IN
    SelectSeq([i \in 1..Len(pieces) |-> Strip(pieces[i])], NonEmpty)

\* the cased characters of the texts
UpperCase == {"A", "B"}
LowerCase == {"a", "b", "c", "j", "n", "o", "q", "s"}

\* paragraph.isupper(): a cased character, and none in lower case
IsUpper(text) ==
    /\ \E i \in 1..Len(text) : text[i].c \in UpperCase
    /\ \A i \in 1..Len(text) : text[i].c \notin LowerCase

\* paragraph.endswith(':')
EndsWithColon(text) == text # <<>> /\ text[Len(text)].c = ":"

\* the length below which an upper-case paragraph is a heading
HeadingLen == 100

\* is_heading
IsHeading(paragraph) ==
    \/ EndsWithColon(paragraph)
    \/ (StrLen(paragraph) < HeadingLen /\ IsUpper(paragraph))

\* hashlib.md5(chunk_text.encode()).hexdigest(): the digest of a text, equal
\* for equal texts and for no others
Md5(text) == <<"md5", text>>

\* the dict appended to chunks for the paragraphs (or sentences) of a buffer
MakeChunk(chunk_text) ==
    [text |-> chunk_text, chunk_id |-> Md5(chunk_text),
     length |-> StrLen(chunk_text)]

RECURSIVE SumLen(_, _)
\* sum(len(p) + extra for p in parts)
SumLen(parts, extra) ==
    IF parts = <<>> THEN 0
    ELSE StrLen(Head(parts)) + extra + SumLen(Tail(parts), extra)

\* parts[-n:], for 0 < n <= len(parts)
LastN(parts, n) == SubSeq(parts, Len(parts) - n + 1, Len(parts))

\* the state of the paragraph loop before its first iteration
ChunkerStart == [chunks |-> <<>>, current_chunk |-> <<>>, current_length |-> 0]

\* the size check of the paragraph loop: the buffer is emitted and the next
\* buffer starts with its last two paragraphs
FinalizeOnSize(st, paragraph, chunk_size) ==
    IF st.current_chunk # <<>>
       /\ st.current_length + StrLen(paragraph) > chunk_size
    THEN LET overlap_paragraphs == Min(2, Len(st.current_chunk))
             kept == LastN(st.current_chunk, overlap_paragraphs)
         IN [chunks |-> Append(st.chunks,
                               MakeChunk(Join(st.current_chunk, ParagraphBreak))),
             current_chunk |-> kept,
             current_length |-> SumLen(kept, 2)]
    ELSE st

\* the heading rule that starts the next buffer empty: the heading is lost
MoveHeadingDropped(st) ==
    LET rest == SubSeq(st.current_chunk, 1, Len(st.current_chunk) - 1)
    IN [chunks |-> IF rest # <<>>
                   THEN Append(st.chunks, MakeChunk(Join(rest, ParagraphBreak)))
                   ELSE st.chunks,
        current_chunk |-> <<>>,
        current_length |-> 0]

\* the heading rule of the paragraph loop: a heading that is not first in the
\* buffer is taken out, the rest is emitted, and the heading starts a buffer
MoveHeading(st) ==
    LET heading == st.current_chunk[Len(st.current_chunk)]
        rest == SubSeq(st.current_chunk, 1, Len(st.current_chunk) - 1)
    IN [chunks |-> IF rest # <<>>
                   THEN Append(st.chunks, MakeChunk(Join(rest, ParagraphBreak)))
                   ELSE st.chunks,
        current_chunk |-> <<heading>>,
        current_length |-> StrLen(heading)]

\* the paragraph loop with the heading rule applied only to a buffer of more
\* than two paragraphs
ParagraphStepLate(st, paragraph, chunk_size) ==
    LET s1 == FinalizeOnSize(st, paragraph, chunk_size)
        s2 == [s1 EXCEPT !.current_chunk = Append(@, paragraph),
                         !.current_length = @ + StrLen(paragraph) + 2]
    IN IF IsHeading(paragraph) /\ Len(s2.current_chunk) > 2
       THEN MoveHeading(s2)
       ELSE s2

\* one iteration of the paragraph loop
ParagraphStep(st, paragraph, chunk_size) ==
    LET s1 == FinalizeOnSize(st, paragraph, chunk_size)
        s2 == [s1 EXCEPT !.current_chunk = Append(@, paragraph),
                         !.current_length = @ + StrLen(paragraph) + 2]
    IN IF IsHeading(paragraph) /\ Len(s2.current_chunk) > 1
       THEN MoveHeading(s2)
       ELSE s2

RECURSIVE ParagraphLoop(_, _, _)
\* the paragraph loop over paragraphs, from state st
ParagraphLoop(st, paragraphs, chunk_size) ==
    IF paragraphs = <<>> THEN st
    ELSE ParagraphLoop(ParagraphStep(st, Head(paragraphs), chunk_size),
                       Tail(paragraphs), chunk_size)

\* the chunks list when the post-processing starts: the loop's chunks and the
\* last buffer
ParagraphChunks(text, chunk_size) ==
    IF Strip(text) = <<>> THEN <<>>
    ELSE LET st == ParagraphLoop(ChunkerStart, ParagraphsOf(text), chunk_size)
         IN IF st.current_chunk # <<>>
            THEN Append(st.chunks,
                        MakeChunk(Join(st.current_chunk, ParagraphBreak)))
            ELSE st.chunks

\* the characters the sentence split looks behind for: [.!?]
SentenceEnd == {".", "!", "?"}

RECURSIVE SplitSentences(_, _, _)
\* re.split(r'(?<=[.!?])\s+', text): a separator is a longest stretch of
\* blanks that follows a character of SentenceEnd; piece is the part of the
\* current piece read so far, in_sep says that a separator is being read
SplitSentences(text, piece, in_sep) ==
    IF text = <<>> THEN IF in_sep THEN <<piece, <<>>>> ELSE <<piece>>
    ELSE LET h == Head(text) IN
         IF h.c \in Whitespace
         THEN IF in_sep \/ (piece # <<>> /\ piece[Len(piece)].c \in SentenceEnd)
              THEN SplitSentences(Tail(text), piece, TRUE)
              ELSE SplitSentences(Tail(text), Append(piece, h), FALSE)
         ELSE IF in_sep
              THEN <<piece>> \o SplitSentences(Tail(text), <<h>>, FALSE)
              ELSE SplitSentences(Tail(text), Append(piece, h), FALSE)

\* the sentences the inner loop works on: stripped, the empty ones skipped
SentencesOf(text) ==
    LET pieces == SplitSentences(text, <<>>, FALSE) IN
    SelectSeq([i \in 1..Len(pieces) |-> Strip(pieces[i])], NonEmpty)

\* the sentence loop without the space it counts for each sentence
SentenceStepUncounted(st, sentence, chunk_size) ==
    LET s1 == IF st.current_chunk # <<>>
                 /\ st.current_length + StrLen(sentence) > chunk_size
              THEN [chunks |-> Append(st.chunks,
                                      MakeChunk(Join(st.current_chunk, Space))),
                    current_chunk |-> <<>>,
                    current_length |-> 0]
              ELSE st
    IN [s1 EXCEPT !.current_chunk = Append(@, sentence),
                  !.current_length = @ + StrLen(sentence)]

\* one iteration of the sentence loop
SentenceStep(st, sentence, chunk_size) ==
    LET s1 == IF st.current_chunk # <<>>
                 /\ st.current_length + StrLen(sentence) > chunk_size
              THEN [chunks |-> Append(st.chunks,
                                      MakeChunk(Join(st.current_chunk, Space))),
                    current_chunk |-> <<>>,
                    current_length |-> 0]
              ELSE st
    IN [s1 EXCEPT !.current_chunk = Append(@, sentence),
                  !.current_length = @ + StrLen(sentence) + 1]

RECURSIVE SentenceLoop(_, _, _)
\* the sentence loop over sentences, from state st
SentenceLoop(st, sentences, chunk_size) ==
    IF sentences = <<>> THEN st
    ELSE SentenceLoop(SentenceStep(st, Head(sentences), chunk_size),
                      Tail(sentences), chunk_size)

\* the chunks that replace one chunk in the post-processing
Resplit(chunk, chunk_size) ==
    IF chunk.length <= chunk_size THEN <<chunk>>
    ELSE LET st == SentenceLoop(ChunkerStart, SentencesOf(chunk.text),
                                chunk_size)
         IN IF st.current_chunk # <<>>
            THEN Append(st.chunks, MakeChunk(Join(st.current_chunk, Space)))
            ELSE st.chunks

RECURSIVE PostProcess(_, _)
\* final_chunks for the chunks of the paragraph loop
PostProcess(chunks, chunk_size) ==
    IF chunks = <<>> THEN <<>>
    ELSE Resplit(Head(chunks), chunk_size)
             \o PostProcess(Tail(chunks), chunk_size)

\* split_into_chunks(text) of a DocumentProcessor built with chunk_size
SplitIntoChunks(text, chunk_size) ==
    PostProcess(ParagraphChunks(text, chunk_size), chunk_size)

\* most paragraphs (pieces between blank lines) in a document text
MaxParagraphs == 3

\* the pieces a document text is made of: a plain paragraph, a sentence, two
\* sentences, a heading by its colon, a heading by its upper case, an
\* upper-case paragraph too long to be a heading, and a blank piece
PlainParagraph == <<Run("a", 2)>>
OneSentence == <<Run("b", 1), Run(".", 1)>>
TwoSentences ==
    <<Run("a", 1), Run(".", 1), Run(" ", 1), Run("b", 1), Run("!", 1)>>
ColonHeading == <<Run("c", 1), Run(":", 1)>>
UpperHeading == <<Run("A", 1), Run("B", 1)>>
LongUpper == <<Run("A", HeadingLen)>>
BlankPiece == <<Run(" ", 1)>>
Pieces ==
    {PlainParagraph, OneSentence, TwoSentences, ColonHeading, UpperHeading,
     LongUpper, BlankPiece}

\* the document texts: up to MaxParagraphs pieces with blank lines between
DocumentTexts ==
    {Join(pieces, ParagraphBreak) : pieces \in SeqsUpTo(Pieces, MaxParagraphs)}

\* the chunk sizes a DocumentProcessor is built with
ChunkSizes == {4, 8, 250}

\* load_document has returned text to a DocumentProcessor(chunk_size)
Loaded(text, chunk_size) ==
    Res("load_document", "ok", [chunk_size |-> chunk_size, text |-> text])

\* split_into_chunks(text) on the loaded text; chunks is the list the
\* post-processing starts from, final_chunks the list returned
SplitLoaded ==
    /\ result.op = "load_document"
    /\ result' = Res("split_into_chunks", "ok",
                     [chunk_size |-> result.value.chunk_size,
                      text |-> result.value.text,
                      chunks |-> ParagraphChunks(result.value.text,
                                                 result.value.chunk_size),
                      final_chunks |-> SplitIntoChunks(result.value.text,
                                                       result.value.chunk_size)])
    /\ calls' = <<"split_into_chunks">>
    /\ UNCHANGED <<index, metadata, fileIndex, fileMeta>>
    /\ UNCHANGED <<index_path, workers>>

---------------------------------------------------------------------------
(* RAGSystem                                                               *)

\* not question.strip()
IsBlank(question) == Strip(question) = <<>>

\* the questions asked: "", a space and a line end, and "q"
Questions == {Chars(0, " "), <<Run(" ", 1), Run("\n", 1)>>, Chars(1, "q")}

\* top_k: <<>> is None, <<k>> is a number
TopKs == {<<>>, <<1>>}

\* top_k, with None replaced by settings.TOP_K_RESULTS
TopKOrDefault(top_k) == IF top_k = <<>> THEN TOP_K_RESULTS ELSE top_k[1]

\* "..."
Ellipsis == <<Run(".", 3)>>

\* the preview without the slice: text + "..."
PreviewUncut(text) == text \o Ellipsis

\* chunk.get("text", "")[:200] + "..."
Preview(text) == Prefix(text, PreviewLen) \o Ellipsis

\* chunk.get("document_name", "Unknown")
DocumentOf(chunk) ==
    IF chunk.document_name = NoKey THEN "Unknown" ELSE chunk.document_name

\* the sources list built from relevant_chunks
Sources(relevant_chunks) ==
    [i \in 1..Len(relevant_chunks) |->
        [document |-> DocumentOf(relevant_chunks[i]),
         score |-> relevant_chunks[i].score,
         text |-> Preview(relevant_chunks[i].text)]]

\* the context block: one entry per chunk, labelled by rank and score
Context(relevant_chunks) ==
    [i \in 1..Len(relevant_chunks) |->
        [document |-> i,
         score |-> relevant_chunks[i].score,
         text |-> relevant_chunks[i].text]]

\* the prompt: the context block and the question
Prompt(relevant_chunks, question) ==
    [context |-> Context(relevant_chunks), question |-> question]

\* the keys of the mapping query and query_structured return
ResultKeys == {"question", "answer", "sources", "timestamp"}

\* query(question, top_k); query_embedding is what the embedder returns
Query(question, top_k, query_embedding) ==
    LET relevant_chunks ==
            SimilaritySearchIn(index, metadata, query_embedding,
                               TopKOrDefault(top_k))
        answer == Generate(Prompt(relevant_chunks, question))
        sources == Sources(relevant_chunks)
    IN
    /\ calls' = <<"embed_query", "similarity_search", "generate">>
    /\ result' =
         IF answer.type = "str"
         THEN Res("query", "ok",
                  [keys |-> ResultKeys, question |-> question,
                   answer |-> answer, retrieved |-> relevant_chunks,
                   sources |-> sources])
         ELSE Res("query", "AttributeError",
                  [keys |-> {}, question |-> question,
                   answer |-> answer, retrieved |-> relevant_chunks,
                   sources |-> sources])
    /\ UNCHANGED <<index, metadata, fileIndex, fileMeta>>
    /\ UNCHANGED <<index_path, workers>>

\* query_structured(question, response_format, top_k)
QueryStructured(question, top_k, query_embedding, reply) ==
    LET relevant_chunks ==
            SimilaritySearchIn(index, metadata, query_embedding,
                               TopKOrDefault(top_k))
        response == GenerateStructured(Prompt(relevant_chunks, question), reply)
        sources == Sources(relevant_chunks)
    IN
    /\ calls' = <<"embed_query", "similarity_search", "generate_structured">>
    /\ result' = Res("query_structured", "ok",
                     [keys |-> ResultKeys, question |-> question,
                      answer |-> response, retrieved |-> relevant_chunks,
                      sources |-> sources])
    /\ UNCHANGED <<index, metadata, fileIndex, fileMeta>>
    /\ UNCHANGED <<index_path, workers>>

\* settings.CHUNK_SIZE, the chunk_size of the system's DocumentProcessor
CHUNK_SIZE == 1000

\* str(directory) of two documents directories: a path of 4 characters and
\* one of 300
NearDir == Chars(4, "d")
FarDir == Chars(300, "d")

\* a file of a documents directory: the directory it lies in, its name with
\* stem and suffix, whether its bytes decode as utf-8, and the text they
\* decode to
File(parent, stem, suffix, decodes, text) ==
    [parent |-> parent, name |-> stem \o suffix, stem |-> stem,
     suffix |-> suffix, decodes |-> decodes, text |-> text]

ShortFile == File(NearDir, "a", ".txt", TRUE, ShortText)
LongFile == File(NearDir, "b", ".md", TRUE, LongText)
EmptyFile == File(NearDir, "c", ".txt", TRUE, <<>>)
BinaryFile == File(NearDir, "d", ".pdf", FALSE, <<>>)
OtherFile == File(NearDir, "e", ".csv", TRUE, ShortText)
\* the short text again, in the directory of the long path
FarFile == File(FarDir, "a", ".txt", TRUE, ShortText)
Files == {ShortFile, LongFile, EmptyFile, BinaryFile, OtherFile}

\* the directories at the short path: no file, one file, or two different
\* files in the order the file system lists them
Directories ==
    {<<>>} \cup {<<f>> : f \in Files}
           \cup {d \in Files \X Files : d[1] # d[2]}

\* the directories processes ingest side by side: text files at the short
\* path, or the one file at the long path
RaceDirectories ==
    {d \in Directories : \A i \in 1..Len(d) : d[i] \in {ShortFile, LongFile}}
        \cup {<<FarFile>>}

\* directory.glob('*' + ext)
Glob(directory, ext) == SelectSeq(directory, LAMBDA f : f.suffix = ext)

\* the files process_directory works on: for ext in ['.txt', '.md', '.pdf']
GlobAll(directory) ==
    Glob(directory, ".txt") \o Glob(directory, ".md") \o Glob(directory, ".pdf")

\* chunk.update({'document_id': file_path.stem, 'document_path':
\* str(file_path), 'document_name': file_path.name}), for chunk in chunks
UpdateChunks(chunks, file) ==
    [i \in 1..Len(chunks) |->
        [document_id |-> file.stem,
         document_path |-> <<file.parent, file.name>>,
         document_name |-> file.name] @@ chunks[i]]

\* process_document(file_path): the chunks of the file's text, updated with
\* the document's id, path and name, or none when loading raises
ProcessDocument(file) ==
    IF ~file.decodes THEN <<>>
    ELSE UpdateChunks(SplitIntoChunks(file.text, CHUNK_SIZE), file)

\* {k: v for k, v in chunk.items() if k != "text"}
MetadataOf(chunk) == [key \in DOMAIN chunk \ {"text"} |-> chunk[key]]

RECURSIVE ExtendAll(_)
\* all_chunks, extended with the chunks of each file in turn
ExtendAll(files) ==
    IF files = <<>> THEN <<>>
    ELSE ProcessDocument(Head(files)) \o ExtendAll(Tail(files))

\* what process_directory returns, for each of the directories
ProcessedDirectories ==
    [d \in Directories \cup RaceDirectories |-> ExtendAll(GlobAll(d))]

\* process_directory(directory)
ProcessDirectory(directory) == ProcessedDirectories[directory]

\* the calls of process_directory: itself and one process_document per file
DirectoryCalls(directory) ==
    <<"process_directory">>
        \o [i \in 1..Len(GlobAll(directory)) |-> "process_document"]

\* ingest_documents(directory) without the return on an empty chunk list
IngestDocumentsUnguarded(directory, embeddings) ==
    LET chunks == ProcessDirectory(directory)
        texts == [i \in 1..Len(chunks) |-> chunks[i].text]
        metadatas == [i \in 1..Len(chunks) |-> MetadataOf(chunks[i])]
        s == AddEmbeddingsTo(index, metadata, texts, embeddings,
                             Some(metadatas))
    IN
    /\ Len(index) + Len(chunks) <= MaxVectors
    /\ calls' = DirectoryCalls(directory) \o <<"embed_documents">>
    /\ index' = s.index
    /\ metadata' = s.metadata
    /\ fileIndex' = SavedIndex(s.index)
    /\ fileMeta' = SavedMeta(s.metadata)
    /\ result' = Res("ingest_documents", "ok",
                     [status |-> "success",
                      chunks_processed |-> Len(chunks),
                      total_vectors |-> Len(s.index)])
    /\ UNCHANGED <<index_path, workers>>

\* ingest_documents(directory) that skips a directory whose chunks are all
\* stored already
IngestDocumentsOnce(directory, embeddings) ==
    /\ LET chunks == ProcessDirectory(directory)
           texts == [i \in 1..Len(chunks) |-> chunks[i].text]
           metadatas == [i \in 1..Len(chunks) |-> MetadataOf(chunks[i])]
           stored == {metadata[j].text : j \in 1..Len(metadata)}
           s == IF Range(texts) \subseteq stored
                THEN [index |-> index, metadata |-> metadata, status |-> "ok"]
                ELSE AddEmbeddingsTo(index, metadata, texts, embeddings,
                                     Some(metadatas))
       IN
       IF chunks = <<>>
       THEN /\ result' = Res("ingest_documents", "ok",
                             [status |-> "error", chunks_processed |-> 0,
                              total_vectors |-> 0])
            /\ calls' = DirectoryCalls(directory)
            /\ UNCHANGED <<index, metadata, fileIndex, fileMeta>>
       ELSE /\ Len(index) + Len(chunks) <= MaxVectors
            /\ calls' = DirectoryCalls(directory) \o <<"embed_documents">>
            /\ index' = s.index
            /\ metadata' = s.metadata
            /\ fileIndex' = SavedIndex(s.index)
            /\ fileMeta' = SavedMeta(s.metadata)
            /\ result' = Res("ingest_documents", "ok",
                             [status |-> "success",
                              chunks_processed |-> Len(chunks),
                              total_vectors |-> Len(s.index)])
    /\ UNCHANGED <<index_path, workers>>

\* ingest_documents(directory); directory is what the directory holds and
\* embeddings what embed_documents returns for the chunks' texts
IngestDocuments(directory, embeddings) ==
    /\ LET chunks == ProcessDirectory(directory) IN
       IF chunks = <<>>
       THEN /\ result' = Res("ingest_documents", "ok",
                             [status |-> "error", chunks_processed |-> 0,
                              total_vectors |-> 0])
            /\ calls' = DirectoryCalls(directory)
            /\ UNCHANGED <<index, metadata, fileIndex, fileMeta>>
       ELSE LET texts == [i \in 1..Len(chunks) |-> chunks[i].text]
                metadatas == [i \in 1..Len(chunks) |-> MetadataOf(chunks[i])]
                s == AddEmbeddingsTo(index, metadata, texts, embeddings,
                                     Some(metadatas))
                sv == SaveTo(index_path, s.index, s.metadata, fileIndex,
                             fileMeta)
            IN
            /\ Len(index) + Len(chunks) <= MaxVectors
            /\ calls' = DirectoryCalls(directory) \o <<"embed_documents">>
            /\ index' = s.index
            /\ metadata' = s.metadata
            /\ IF s.status = "ok"
               THEN /\ fileIndex' = sv.fileIndex
                    /\ fileMeta' = sv.fileMeta
                    /\ result' =
                        IF sv.status = "ok"
                        THEN Res("ingest_documents", "ok",
                                 [status |-> "success",
                                  chunks_processed |-> Len(chunks),
                                  total_vectors |-> Len(s.index)])
                        ELSE Res("ingest_documents", sv.status,
                                 [status |-> "raised", chunks_processed |-> 0,
                                  total_vectors |-> 0])
               ELSE /\ UNCHANGED <<fileIndex, fileMeta>>
                    /\ result' = Res("ingest_documents", s.status,
                                     [status |-> "raised", chunks_processed |-> 0,
                                      total_vectors |-> 0])
    /\ UNCHANGED <<index_path, workers>>

\* clear_index() without the save(): clear() alone
ClearIndexUnsaved ==
    /\ index' = NewIndex
    /\ metadata' = <<>>
    /\ result' = Res("clear_index", "ok", [status |-> "success"])
    /\ calls' = <<>>
    /\ UNCHANGED <<fileIndex, fileMeta>>
    /\ UNCHANGED <<index_path, workers>>

\* clear_index(): clear() then save()
ClearIndex ==
    LET sv == SaveTo(index_path, NewIndex, <<>>, fileIndex, fileMeta) IN
    /\ index' = NewIndex
    /\ metadata' = <<>>
    /\ fileIndex' = sv.fileIndex
    /\ fileMeta' = sv.fileMeta
    /\ result' = IF sv.status = "ok"
                 THEN Res("clear_index", "ok", [status |-> "success"])
                 ELSE Res("clear_index", sv.status, [status |-> "raised"])
    /\ calls' = <<>>
    /\ UNCHANGED <<index_path, workers>>

---------------------------------------------------------------------------
(* The persisted artifacts, lost or damaged outside the store              *)

\* index_path no longer exists (os.path.exists(self.index_path) is false)
LoseIndexFile ==
    /\ fileIndex.state # "missing"
    /\ fileIndex' = Missing
    /\ UNCHANGED <<index, metadata, fileMeta, result, calls>>
    /\ UNCHANGED <<index_path, workers>>

\* faiss.read_index(self.index_path) will raise
DamageIndexFile ==
    /\ fileIndex.state = "valid"
    /\ fileIndex' = Corrupt
    /\ UNCHANGED <<index, metadata, fileMeta, result, calls>>
    /\ UNCHANGED <<index_path, workers>>

\* the .json sidecar no longer exists (os.path.exists(metadata_path) is false)
LoseMetadataFile ==
    /\ fileMeta.state # "missing"
    /\ fileMeta' = Missing
    /\ UNCHANGED <<index, metadata, fileIndex, result, calls>>
    /\ UNCHANGED <<index_path, workers>>

\* json.load(f) will raise
DamageMetadataFile ==
    /\ fileMeta.state = "valid"
    /\ fileMeta' = Corrupt
    /\ UNCHANGED <<index, metadata, fileIndex, result, calls>>
    /\ UNCHANGED <<index_path, workers>>

---------------------------------------------------------------------------
(* Processes that share one persistence location                           *)

\* the processes: each builds its own RAGSystem on the same index_path
Workers == {1, 2}

\* a process before its RAGSystem is built; op, loaded and added say what it
\* went on to do, how many records it had loaded and how many it added,
\* overlapped that another process was at work when it started, and earlier
\* what the processes that used the location before it left (<<>>: none did)
Idle(earlier) ==
    [pc |-> "idle", index |-> NewIndex, metadata |-> <<>>, op |-> "none",
     loaded |-> 0, added |-> 0, overlapped |-> FALSE, earlier |-> earlier]

NoWorkers == [w \in Workers |-> Idle(<<>>)]

\* another process is between its construction and the end of its save()
OtherRunning(w) ==
    \E o \in Workers \ {w} : workers[o].pc \notin {"idle", "done"}

\* process w starts: RAGSystem() builds its FAISSStore, whose
\* _initialize_index asks whether index_path exists
WorkerInitializeIndex(w) ==
    /\ workers[w].pc = "idle"
    /\ workers' = [workers EXCEPT ![w] =
                      [pc |-> IF fileIndex.state # "missing" THEN "read_index"
                                                             ELSE "ready",
                       index |-> NewIndex, metadata |-> <<>>, op |-> "none",
                       loaded |-> 0, added |-> 0,
                       overlapped |-> OtherRunning(w),
                       earlier |-> workers[w].earlier]]
    /\ UNCHANGED <<index_path, index, metadata, fileIndex, fileMeta, result,
                   calls>>

\* the handler of _load_index: a new index and no metadata
LoadFailed(w) ==
    [workers EXCEPT ![w].pc = "ready", ![w].index = NewIndex,
                    ![w].metadata = <<>>]

\* _load_index in process w: faiss.read_index(self.index_path)
WorkerReadIndex(w) ==
    /\ workers[w].pc = "read_index"
    /\ workers' = IF fileIndex.state = "valid"
                  THEN [workers EXCEPT ![w].pc = "find_metadata",
                                       ![w].index = fileIndex.data]
                  ELSE LoadFailed(w)
    /\ UNCHANGED <<index_path, index, metadata, fileIndex, fileMeta, result,
                   calls>>

\* _load_index in process w: os.path.exists(metadata_path)
WorkerFindMetadata(w) ==
    /\ workers[w].pc = "find_metadata"
    /\ workers' = [workers EXCEPT ![w].pc =
                      IF fileMeta.state # "missing" THEN "load_metadata"
                                                    ELSE "ready"]
    /\ UNCHANGED <<index_path, index, metadata, fileIndex, fileMeta, result,
                   calls>>

\* _load_index in process w: open(metadata_path, 'r') and json.load(f)
WorkerLoadMetadata(w) ==
    /\ workers[w].pc = "load_metadata"
    /\ workers' = IF fileMeta.state = "valid"
                  THEN [workers EXCEPT ![w].pc = "ready",
                                       ![w].metadata = JsonLoad(fileMeta.data)]
                  ELSE LoadFailed(w)
    /\ UNCHANGED <<index_path, index, metadata, fileIndex, fileMeta, result,
                   calls>>

\* ingest_documents(directory) in process w, up to its add_embeddings
WorkerAdd(w, directory, embeddings) ==
    LET chunks == ProcessDirectory(directory)
        texts == [i \in 1..Len(chunks) |-> chunks[i].text]
        metadatas == [i \in 1..Len(chunks) |-> MetadataOf(chunks[i])]
        s == AddEmbeddingsTo(workers[w].index, workers[w].metadata, texts,
                             embeddings, Some(metadatas))
    IN
    /\ workers[w].pc = "ready"
    /\ chunks # <<>>
    /\ workers' = [workers EXCEPT ![w].pc = IF s.status = "ok" THEN "saving"
                                                               ELSE "done",
                                  ![w].index = s.index,
                                  ![w].metadata = s.metadata,
                                  ![w].op = "ingest_documents",
                                  ![w].loaded = Len(workers[w].metadata),
                                  ![w].added = Len(chunks)]
    /\ UNCHANGED <<index_path, index, metadata, fileIndex, fileMeta, result,
                   calls>>

\* clear_index() in process w, up to its clear()
WorkerClear(w) ==
    /\ workers[w].pc = "ready"
    /\ workers' = [workers EXCEPT ![w].pc = "saving",
                                  ![w].index = NewIndex,
                                  ![w].metadata = <<>>,
                                  ![w].op = "clear_index",
                                  ![w].loaded = Len(workers[w].metadata)]
    /\ UNCHANGED <<index_path, index, metadata, fileIndex, fileMeta, result,
                   calls>>

\* save() in process w: faiss.write_index(self.index, self.index_path)
\* creates the file anew; until it is written faiss.read_index cannot read it
WorkerOpenIndex(w) ==
    /\ workers[w].pc = "saving"
    /\ fileIndex' = Corrupt
    /\ workers' = [workers EXCEPT ![w].pc = "index_open"]
    /\ UNCHANGED <<index_path, index, metadata, fileMeta, result, calls>>

\* save() in process w: faiss.write_index has written the index
WorkerWriteIndex(w) ==
    /\ workers[w].pc = "index_open"
    /\ fileIndex' = SavedIndex(workers[w].index)
    /\ workers' = [workers EXCEPT ![w].pc = "index_written"]
    /\ UNCHANGED <<index_path, index, metadata, fileMeta, result, calls>>

\* save() in process w: open(metadata_path, 'w') leaves the sidecar with no
\* content, which json.load cannot read
WorkerOpenMetadata(w) ==
    /\ workers[w].pc = "index_written"
    /\ fileMeta' = Corrupt
    /\ workers' = [workers EXCEPT ![w].pc = "metadata_open"]
    /\ UNCHANGED <<index_path, index, metadata, fileIndex, result, calls>>

\* json.dump through a file object opened at the start of the sidecar fm: the
\* document replaces what the file holds up to its own length, and what
\* another process has written beyond it stays, which json.load cannot read
DumpOver(fm, meta) ==
    IF SidecarSize(fm) > DumpLen(JsonDump(meta))
    THEN Unreadable(SidecarSize(fm))
    ELSE SavedMeta(meta)

\* save() in process w writing the index again with the sidecar, in one step
WorkerDumpBoth(w) ==
    /\ workers[w].pc = "metadata_open"
    /\ fileIndex' = SavedIndex(workers[w].index)
    /\ fileMeta' = DumpOver(fileMeta, workers[w].metadata)
    /\ workers' = [workers EXCEPT ![w].pc = "done"]
    /\ UNCHANGED <<index_path, index, metadata, result, calls>>

\* save() in process w: json.dump(self.metadata, f) and the end of the with
\* block, the end of the operation
WorkerDumpMetadata(w) ==
    /\ workers[w].pc = "metadata_open"
    /\ fileMeta' = DumpOver(fileMeta, workers[w].metadata)
    /\ workers' = [workers EXCEPT ![w].pc = "done"]
    /\ UNCHANGED <<index_path, index, metadata, fileIndex, result, calls>>

---------------------------------------------------------------------------
(* Specifications                                                          *)

Init ==
    /\ index_path = VECTOR_STORE_PATH
    /\ index = NewIndex
    /\ metadata = <<>>
    /\ fileIndex = Missing
    /\ fileMeta = Missing
    /\ result = NoResult
    /\ calls = <<>>
    /\ workers = NoWorkers

\* add_embeddings with any argument lists, in an interpreter that runs assert
\* statements or in one that does not
AnyAddEmbeddings ==
    \E asserts \in BOOLEAN,
       texts \in SeqsUpTo(Texts, MaxBatch),
       embeddings \in SeqsUpTo(Rows, MaxBatch),
       metadatas \in {None} \cup {Some(l) : l \in SeqsUpTo(MetaDicts, MaxBatch)} :
        AddEmbeddings(asserts, texts, embeddings, metadatas)

\* similarity_search with any query of the store's dimension and any k >= 1
AnySimilaritySearch ==
    \E query \in Vectors, k \in 1..MaxK : SimilaritySearch(query, k)

Next == AnyAddEmbeddings \/ Clear \/ AnySimilaritySearch

Spec == Init /\ [][Next]_vars

\* add_embeddings with one text, one embedding and its metadata dict
AddOneEmbedding ==
    \E asserts \in BOOLEAN, text \in Texts, v \in Vectors, m \in MetaDicts :
        AddEmbeddings(asserts, <<text>>, <<v>>, Some(<<m>>))

NextPersist ==
    \/ Construct
    \/ Save
    \/ AddOneEmbedding
    \/ Clear
    \/ LoseIndexFile
    \/ DamageIndexFile
    \/ LoseMetadataFile
    \/ DamageMetadataFile

\* a store used directly, at an index_path with or without a directory part
InitPersist ==
    /\ index_path \in IndexPaths
    /\ index = NewIndex
    /\ metadata = <<>>
    /\ fileIndex = Missing
    /\ fileMeta = Missing
    /\ result = NoResult
    /\ calls = <<>>
    /\ workers = NoWorkers

SpecPersist == InitPersist /\ [][NextPersist]_vars

\* ingest of any directory: up to MaxBatch chunks, any embeddings of them
AnyIngestDocuments ==
    \E directory \in Directories :
        \E embeddings \in [1..Len(ProcessDirectory(directory)) -> Embeddings] :
            IngestDocuments(directory, embeddings)

\* the directories that hold text files only
TextDirectories ==
    {d \in Directories : \A i \in 1..Len(d) : d[i] \in {ShortFile, LongFile}}

\* NomicEmbedder.embed_documents(texts): model.encode gives a text the same
\* vector at every call; here the short text has the zero vector and every
\* other text the vector of ones
EmbedDocuments(texts) ==
    [i \in 1..Len(texts) |->
        IF texts[i] = ShortText THEN ZeroVec(VectorDim)
        ELSE [j \in 1..VectorDim |-> 1]]

\* texts = [chunk["text"] for chunk in chunks]
TextsOf(chunks) == [i \in 1..Len(chunks) |-> chunks[i].text]

\* ingest of a directory of text files, embedded by the embedder
IngestTextFiles ==
    \E directory \in TextDirectories :
        IngestDocuments(directory,
                        EmbedDocuments(TextsOf(ProcessDirectory(directory))))

AnyQuery ==
    \E question \in Questions, top_k \in TopKs, query_embedding \in Embeddings :
        Query(question, top_k, query_embedding)

\* query_structured with any question (it does not examine the question) and
\* every reply of the model
AnyQueryStructured ==
    \E question \in Questions, top_k \in TopKs,
       query_embedding \in Embeddings, reply \in Replies :
        QueryStructured(question, top_k, query_embedding, reply)

NextRag ==
    \/ Construct
    \/ IngestTextFiles
    \/ AnyQuery
    \/ AnyQueryStructured
    \/ ClearIndex

SpecRag == Init /\ [][NextRag]_vars

\* the orchestrator's ingestion over every directory: construction,
\* ingest_documents and clear_index
NextIngest ==
    \/ Construct
    \/ AnyIngestDocuments
    \/ ClearIndex

SpecIngest == Init /\ [][NextIngest]_vars

\* the chunker: a text is loaded, then split
InitChunk ==
    /\ index_path = VECTOR_STORE_PATH
    /\ index = NewIndex
    /\ metadata = <<>>
    /\ fileIndex = Missing
    /\ fileMeta = Missing
    /\ calls = <<"load_document">>
    /\ workers = NoWorkers
    /\ \E text \in DocumentTexts, chunk_size \in ChunkSizes :
        result = Loaded(text, chunk_size)

NextChunk == SplitLoaded

SpecChunk == InitChunk /\ [][NextChunk]_vars

\* two processes, each building a store from the artifacts, then ingesting a
\* directory of text files or clearing, then saving, in any interleaving
AnyWorkerAdd ==
    \E w \in Workers, directory \in RaceDirectories :
        \E embeddings \in [1..Len(ProcessDirectory(directory)) -> Embeddings] :
            WorkerAdd(w, directory, embeddings)

NextRace ==
    \/ \E w \in Workers : WorkerInitializeIndex(w)
    \/ \E w \in Workers : WorkerReadIndex(w)
    \/ \E w \in Workers : WorkerFindMetadata(w)
    \/ \E w \in Workers : WorkerLoadMetadata(w)
    \/ AnyWorkerAdd
    \/ \E w \in Workers : WorkerClear(w)
    \/ \E w \in Workers : WorkerOpenIndex(w)
    \/ \E w \in Workers : WorkerWriteIndex(w)
    \/ \E w \in Workers : WorkerOpenMetadata(w)
    \/ \E w \in Workers : WorkerDumpMetadata(w)

SpecRace == Init /\ [][NextRace]_vars

\* both processes have finished their operation, save() included
BothDone == \A w \in Workers : workers[w].pc = "done"

\* the number of vectors in the persisted index, of records in the sidecar
PersistedVectors == IF fileIndex.state = "valid" THEN Len(fileIndex.data) ELSE 0
PersistedRecords == IF fileMeta.state = "valid" THEN Len(fileMeta.data) ELSE 0

\* what two finished processes leave behind: the operation of each, the
\* records the sidecar would hold had it kept what they loaded and all they
\* added, and the numbers of entries the two artifacts hold
Outcome ==
    [ops |-> [w \in Workers |-> workers[w].op],
     wanted |-> workers[1].loaded + workers[1].added + workers[2].added,
     vectors |-> PersistedVectors,
     records |-> PersistedRecords]

\* the two processes have exited and two new ones are about to start at the
\* location (once)
StartAgain ==
    /\ BothDone
    /\ \A w \in Workers : workers[w].earlier = <<>>
    /\ workers' = [w \in Workers |-> Idle(<<Outcome>>)]
    /\ UNCHANGED <<index_path, index, metadata, fileIndex, fileMeta, result,
                   calls>>

\* One interleaving of two operations that are not both clear_index: each
\* process builds its store and runs its operation up to save(); process 1
\* writes the index; process 2 runs its whole save(); process 1 writes the
\* sidecar. Every step is a step of SpecRace.

\* ingest_documents in a process, with the embedder's vectors
EmbeddedWorkerAdd ==
    \E w \in Workers, directory \in RaceDirectories :
        WorkerAdd(w, directory,
                  EmbedDocuments(TextsOf(ProcessDirectory(directory))))

\* clear_index in a process, unless the other process clears
OneWorkerClear ==
    \E w \in Workers :
        /\ \A o \in Workers \ {w} : workers[o].op # "clear_index"
        /\ WorkerClear(w)

\* process 1 starts its save() when process 2 has run its operation, process
\* 2 when process 1 has written the index
InTurnOpenIndex ==
    \/ workers[2].pc = "saving" /\ WorkerOpenIndex(1)
    \/ workers[1].pc = "index_written" /\ WorkerOpenIndex(2)

\* process 1 opens the sidecar when process 2 has finished its save()
InTurnOpenMetadata ==
    \/ workers[2].pc = "done" /\ WorkerOpenMetadata(1)
    \/ WorkerOpenMetadata(2)

NextInterleaved ==
    \/ \E w \in Workers : WorkerInitializeIndex(w)
    \/ \E w \in Workers : WorkerReadIndex(w)
    \/ \E w \in Workers : WorkerFindMetadata(w)
    \/ \E w \in Workers : WorkerLoadMetadata(w)
    \/ EmbeddedWorkerAdd
    \/ OneWorkerClear
    \/ InTurnOpenIndex
    \/ \E w \in Workers : WorkerWriteIndex(w)
    \/ InTurnOpenMetadata
    \/ \E w \in Workers : WorkerDumpMetadata(w)
    \/ StartAgain

SpecInterleaved == Init /\ [][NextInterleaved]_vars

---------------------------------------------------------------------------
(* Properties                                                              *)

\* the argument lists of add_embeddings
TextLists == SeqsUpTo(Texts, MaxBatch)
EmbeddingLists == SeqsUpTo(Rows, MaxBatch)
MetadataLists == {None} \cup {Some(l) : l \in SeqsUpTo(MetaDicts, MaxBatch)}

\* C1: between calls of add_embeddings (with any texts, embeddings and
\* metadatas lists) and clear, the index holds as many vectors as the
\* metadata list holds records.
C1_IndexMetadataSameLength == ntotal = Len(metadata)

\* some row of the batch has not vector_dim entries
WrongDimension(embeddings) ==
    \E i \in 1..Len(embeddings) : Len(embeddings[i]) # VectorDim

\* C2: in every state of the store, empty or populated, and whether or not
\* the interpreter runs assert statements, add_embeddings of a batch with a row
\* whose length is not vector_dim raises the dimension-mismatch error and
\* leaves the index and the metadata list as they were.
C2_WrongDimensionRejected ==
    \A asserts \in BOOLEAN,
       texts \in TextLists,
       embeddings \in {e \in EmbeddingLists : WrongDimension(e)},
       metadatas \in MetadataLists :
        LET s == AddEmbeddingsWith(asserts, index, metadata, texts, embeddings,
                                   metadatas)
        IN /\ s.status = DimensionMismatch
           /\ s.index = index
           /\ s.metadata = metadata

\* C3: every record of the metadata list has in its 'index' field its own
\* zero-based position in the list, which is the position of its vector.
C3_IndexFieldIsPosition ==
    \A i \in 1..Len(metadata) : metadata[i].index = i - 1

\* the searches a store answers the same way as another
SameSearches(idx1, meta1, idx2, meta2) ==
    \A query \in Vectors, k \in 1..MaxK :
        SimilaritySearchIn(idx1, meta1, query, k)
            = SimilaritySearchIn(idx2, meta2, query, k)

\* C4: after save() on a store in any state, a store constructed with the
\* same index_path has the same vectors (ntotal), the same metadata sequence
\* and the same search results as the store that was saved.
C4_SaveLoadRoundTrip ==
    [][Save =>
        LET s == InitializeIndex(fileIndex', fileMeta') IN
        /\ Len(s.index) = Len(index')
        /\ s.index = index'
        /\ s.metadata = metadata'
        /\ SameSearches(s.index, s.metadata, index', metadata')]_vars

\* the distances of all stored vectors to the query
Distances(idx, query) == {L2Sqr(idx[p], query) : p \in 1..Len(idx)}

\* position p (one-based) is among the n nearest of idx to the query
AmongNearest(idx, query, p, n) ==
    Cardinality({r \in 1..Len(idx) :
                    L2Sqr(idx[r], query) < L2Sqr(idx[p], query)}) < n

\* C5: similarity_search(query, k) returns at most k records in order of
\* non-decreasing score, one for each of the min(k, ntotal) nearest vectors,
\* each the record of its vector with the squared L2 distance of that vector
\* as its score, and nothing when the index is empty.
C5_SearchReturnsNearest ==
    result.op = "similarity_search" =>
        LET query == result.value[1]
            k == result.value[2]
            found == result.value[3]
        IN /\ Len(found) <= k
           /\ \A i \in 1..(Len(found) - 1) : found[i].score <= found[i + 1].score
           /\ ntotal = 0 => found = <<>>
           /\ Len(found) = Min(k, ntotal)
           /\ \A i \in 1..Len(found) :
                \E p \in 1..ntotal :
                    /\ p <= Len(metadata)
                    /\ metadata[p].text = found[i].text
                    /\ metadata[p].index = found[i].index
                    /\ found[i].score = L2Sqr(index[p], query)
                    /\ AmongNearest(index, query, p, k)

\* C6: a store constructed while either artifact is missing or unreadable is
\* the empty store.
C6_ConstructFallsBackToEmpty ==
    [][(Construct /\ (fileIndex.state # "valid" \/ fileMeta.state # "valid"))
        => (Len(index') = 0 /\ metadata' = <<>>)]_vars

\* every search of the store returns nothing
SearchesEmpty ==
    \A query \in Vectors, k \in 1..MaxK :
        SimilaritySearchIn(index, metadata, query, k) = <<>>

\* a store constructed from the artifacts is empty
PersistedEmpty ==
    LET s == InitializeIndex(fileIndex, fileMeta) IN
    Len(s.index) = 0 /\ s.metadata = <<>>

\* C7: after clear_index every search returns nothing and a store constructed
\* from the same location is empty, and both stay so under every operation
\* but an ingest.
C7_ClearIndexEmptiesDurably ==
    [][/\ ClearIndex => (SearchesEmpty' /\ PersistedEmpty')
       /\ (SearchesEmpty /\ PersistedEmpty /\ result'.op # "ingest_documents")
            => (SearchesEmpty' /\ PersistedEmpty')]_vars

\* clear_index has reset the store and both artifacts
C7_Witness ==
    /\ result.op = "clear_index"
    /\ ntotal = 0
    /\ metadata = <<>>
    /\ fileIndex = Valid(<<>>)
    /\ fileMeta = Valid(<<>>)

\* C8: query with an empty or whitespace-only question fails with a
\* validation error and calls neither the embedder, the search nor the
\* generator.
C8_BlankQuestionRejected ==
    (result.op = "query" /\ IsBlank(result.value.question)) =>
        /\ result.status = "ValidationError"
        /\ calls = <<>>

\* C9: query with a non-empty question calls embed, search and generate in
\* that order and returns the mapping with the keys question, answer, sources
\* and timestamp, the answer being the generated text and sources having one
\* entry per retrieved chunk, in retrieval order.
C9_QueryReturnsAnswer ==
    (result.op = "query" /\ ~IsBlank(result.value.question)) =>
        /\ calls = <<"embed_query", "similarity_search", "generate">>
        /\ result.status = "ok"
        /\ result.value.keys = ResultKeys
        /\ result.value.answer.type = "str"
        /\ Len(result.value.sources) = Len(result.value.retrieved)
        /\ \A i \in 1..Len(result.value.sources) :
            result.value.sources[i].score = result.value.retrieved[i].score

\* the last operation built a sources list
BuiltSources == result.op \in {"query", "query_structured"}

\* C10 as stated: every entry of sources in a returned result carries the
\* chunk's document name, its score and a text of at most 200 characters.
C10_PreviewAtMost200 ==
    (BuiltSources /\ result.status = "ok") =>
        \A i \in 1..Len(result.value.sources) :
            /\ result.value.sources[i].document
                 = result.value.retrieved[i].document_name
            /\ result.value.sources[i].score = result.value.retrieved[i].score
            /\ StrLen(result.value.sources[i].text) <= PreviewLen

\* C10, amended: every entry of the sources list query and query_structured
\* build carries the chunk's document name, its score and a text that is the
\* chunk's first 200 characters followed by "...": at most 203 characters.
C10_PreviewAtMost203 ==
    BuiltSources =>
        /\ Len(result.value.sources) = Len(result.value.retrieved)
        /\ \A i \in 1..Len(result.value.sources) :
            LET source == result.value.sources[i]
                chunk == result.value.retrieved[i]
            IN /\ source.document = chunk.document_name
               /\ source.score = chunk.score
               /\ StartsWith(chunk.text, DropLast(source.text, 3))
               /\ Drop(source.text, StrLen(source.text) - 3) = <<Run(".", 3)>>
               /\ StrLen(source.text)
                    = Min(StrLen(chunk.text), PreviewLen) + StrLen(Ellipsis)
               /\ StrLen(source.text) <= PreviewLen + StrLen(Ellipsis)

\* query_structured, asked a blank question, returned a source whose chunk is
\* longer than the slice and a source whose chunk is shorter
C10_Witness ==
    /\ result.op = "query_structured"
    /\ result.status = "ok"
    /\ IsBlank(result.value.question)
    /\ \E i \in 1..Len(result.value.sources) :
        /\ StrLen(result.value.retrieved[i].text) > PreviewLen
        /\ StrLen(result.value.sources[i].text) > PreviewLen
    /\ \E i \in 1..Len(result.value.sources) :
        StrLen(result.value.retrieved[i].text) < PreviewLen

\* C11: a structured query whose reply is not valid JSON does not raise, and
\* its answer carries the error marker and, as raw_response, the raw text
\* that the unstructured generation produced
C11_FallbackHoldsRawText ==
    (result.op = "query_structured" /\ result.value.answer.type = "fallback")
        => /\ result.status = "ok"
           /\ result.value.answer.error # NoKey
           /\ result.value.answer.raw_response.type = "str"

\* C12: ingest_documents on a directory that yields no chunk returns a result
\* of status error without raising, calls no embedder, and leaves the index,
\* the metadata and both persisted artifacts as they were
C12_EmptyIngestIsError ==
    [][result'.op = "ingest_documents" =>
          \A directory \in Directories :
              (ProcessDirectory(directory) = <<>>
                  /\ IngestDocuments(directory, <<>>))
              => /\ result'.status = "ok"
                 /\ result'.value.status = "error"
                 /\ "embed_documents" \notin Range(calls')
                 /\ UNCHANGED <<index, metadata, fileIndex, fileMeta>>]_vars

\* an ingest of a directory with files that give no chunk has returned the
\* error result on a store that holds vectors
C12_Witness ==
    /\ result.op = "ingest_documents"
    /\ result.status = "ok"
    /\ result.value.status = "error"
    /\ "process_document" \in Range(calls)
    /\ "embed_documents" \notin Range(calls)
    /\ ntotal > 0
    /\ fileIndex = SavedIndex(index)
    /\ fileMeta = SavedMeta(metadata)

\* C13: a successful ingest_documents whose directory gives N chunks appends
\* N vectors and N records, those of the chunks, whatever is stored already;
\* it returns status success with chunks_processed = N and total_vectors =
\* ntotal before the call + N, and what it persists loads to the store it
\* leaves in memory
C13_IngestAppendsEveryChunk ==
    [][result'.op = "ingest_documents" =>
          \A directory \in Directories :
              \A embeddings \in [1..Len(ProcessDirectory(directory))
                                     -> Embeddings] :
                  (ProcessDirectory(directory) # <<>>
                      /\ IngestDocuments(directory, embeddings))
                  => LET chunks == ProcessDirectory(directory)
                         N == Len(chunks)
                     IN
                     /\ result'.status = "ok"
                     /\ result'.value.status = "success"
                     /\ result'.value.chunks_processed = N
                     /\ result'.value.total_vectors = ntotal + N
                     /\ Len(index') = Len(index) + N
                     /\ Len(metadata') = Len(metadata) + N
                     /\ SubSeq(index', 1, Len(index)) = index
                     /\ SubSeq(metadata', 1, Len(metadata)) = metadata
                     /\ \A i \in 1..N :
                         /\ index'[Len(index) + i] = embeddings[i]
                         /\ metadata'[Len(metadata) + i].text = chunks[i].text
                         /\ metadata'[Len(metadata) + i].document_name
                              = chunks[i].document_name
                     /\ InitializeIndex(fileIndex', fileMeta')
                          = [index |-> index', metadata |-> metadata']]_vars

\* the same directory of one chunk has been ingested twice: two vectors and
\* two records of the same text, persisted as they are in memory
C13_Witness ==
    /\ result.op = "ingest_documents"
    /\ result.value.status = "success"
    /\ result.value.chunks_processed = 1
    /\ result.value.total_vectors = 2
    /\ Len(index) = 2
    /\ Len(metadata) = 2
    /\ metadata[1].text = metadata[2].text
    /\ metadata[1].document_name = metadata[2].document_name
    /\ InitializeIndex(fileIndex, fileMeta)
         = [index |-> index, metadata |-> metadata]

\* split_into_chunks has returned
Split == result.op = "split_into_chunks"

\* C14: every returned chunk has its length field equal to the length of its
\* text and at most chunk_size, except a chunk that is one piece of the
\* sentence split, whatever the chunk it was cut from started with
C14_ChunkWithinSize ==
    Split =>
        \A i \in 1..Len(result.value.final_chunks) :
            LET chunk == result.value.final_chunks[i] IN
            /\ chunk.length = StrLen(chunk.text)
            /\ chunk.length > result.value.chunk_size
                   => Len(SentencesOf(chunk.text)) = 1

\* a chunk that starts with the overlap of the chunk before it was longer
\* than chunk_size and has been cut into chunks of several sentences within
\* chunk_size, and a chunk of one sentence longer than chunk_size is returned
C14_Witness ==
    /\ Split
    /\ \E k \in 2..Len(result.value.chunks) :
        LET chunk == result.value.chunks[k]
            before == ParagraphsOf(result.value.chunks[k - 1].text)
        IN
        /\ chunk.length > result.value.chunk_size
        /\ Head(ParagraphsOf(chunk.text)) \in Range(before)
        /\ Len(SentencesOf(chunk.text)) > 1
    /\ \E i \in 1..Len(result.value.final_chunks) :
        /\ result.value.final_chunks[i].length <= result.value.chunk_size
        /\ Len(SentencesOf(result.value.final_chunks[i].text)) > 1
    /\ \E i \in 1..Len(result.value.final_chunks) :
        result.value.final_chunks[i].length > result.value.chunk_size

\* part in text, for two strs
Contains(text, part) ==
    \E d \in 0..StrLen(text) : StartsWith(Drop(text, d), part)

RECURSIVE Squeeze(_)
\* text without its blanks
Squeeze(text) ==
    IF text = <<>> THEN <<>>
    ELSE IF Head(text).c \in Whitespace THEN Squeeze(Tail(text))
    ELSE Cat(<<Head(text)>>, Squeeze(Tail(text)))

RECURSIVE SqueezeAll(_)
\* the texts of chunks one after the other, without their blanks
SqueezeAll(chunks) ==
    IF chunks = <<>> THEN <<>>
    ELSE Cat(Squeeze(Head(chunks).text), SqueezeAll(Tail(chunks)))

\* the paragraphs of each chunk of a list
ParagraphLists(chunks) ==
    [k \in 1..Len(chunks) |-> ParagraphsOf(chunks[k].text)]

RECURSIVE Rebuilds(_, _, _)
\* lists, each without the paragraphs it repeats from the end of the list
\* before it (at most two; before is that list), spell paragraphs
Rebuilds(before, lists, paragraphs) ==
    IF lists = <<>> THEN paragraphs = <<>>
    ELSE LET list == Head(lists) IN
         \E overlap \in 0..Min(Len(before), Min(2, Len(list))) :
             LET fresh == SubSeq(list, overlap + 1, Len(list)) IN
             /\ SubSeq(list, 1, overlap) = LastN(before, overlap)
             /\ Len(fresh) <= Len(paragraphs)
             /\ SubSeq(paragraphs, 1, Len(fresh)) = fresh
             /\ Rebuilds(list, Tail(lists),
                         SubSeq(paragraphs, Len(fresh) + 1, Len(paragraphs)))

\* C15 as stated: every non-empty paragraph of the input appears in at least
\* one returned chunk.
C15_EveryParagraphInAChunk ==
    Split =>
        \A p \in Range(ParagraphsOf(result.value.text)) :
            \E i \in 1..Len(result.value.final_chunks) :
                Contains(result.value.final_chunks[i].text, p)

\* C15 amended: the chunks of the paragraph loop, each without the one or two
\* paragraphs (or the whole chunk) it repeats from the end of the chunk before
\* it, list the paragraphs of the input in document order; a chunk within
\* chunk_size is returned as it is, and the returned chunks hold, in order,
\* the characters of those chunks that are not blanks
C15_NoContentDropped ==
    Split =>
        /\ Rebuilds(<<>>, ParagraphLists(result.value.chunks),
                    ParagraphsOf(result.value.text))
        /\ \A k \in 1..Len(result.value.chunks) :
               result.value.chunks[k].length <= result.value.chunk_size
                   => result.value.chunks[k] \in Range(result.value.final_chunks)
        /\ SqueezeAll(result.value.final_chunks)
             = SqueezeAll(result.value.chunks)

\* a chunk that starts with a paragraph of the chunk before it has been cut
\* by sentences, and a paragraph of the input is in no returned chunk whole
C15_Witness ==
    /\ Split
    /\ result.value.final_chunks # result.value.chunks
    /\ \E k \in 2..Len(result.value.chunks) :
        Head(ParagraphsOf(result.value.chunks[k].text))
            \in Range(ParagraphsOf(result.value.chunks[k - 1].text))
    /\ \E p \in Range(ParagraphsOf(result.value.text)) :
        \A i \in 1..Len(result.value.final_chunks) :
            ~Contains(result.value.final_chunks[i].text, p)

\* C17: in the chunks of the paragraph loop, those returned without a sentence
\* cut among them, a paragraph that is a heading is the first paragraph of
\* its chunk, also in a chunk that starts with overlap paragraphs
C17_HeadingOnlyFirst ==
    Split =>
        \A k \in 1..Len(result.value.chunks) :
            LET paragraphs == ParagraphsOf(result.value.chunks[k].text) IN
            \A i \in 2..Len(paragraphs) : ~IsHeading(paragraphs[i])

\* a returned chunk of three paragraphs starts with a heading that it
\* repeats, as overlap, from the chunk before it
C17_Witness ==
    /\ Split
    /\ \E k \in 2..Len(result.value.chunks) :
        LET paragraphs == ParagraphsOf(result.value.chunks[k].text)
            before == ParagraphsOf(result.value.chunks[k - 1].text)
        IN
        /\ Len(paragraphs) = 3
        /\ IsHeading(paragraphs[1])
        /\ SubSeq(paragraphs, 1, 2) = before
        /\ result.value.chunks[k] \in Range(result.value.final_chunks)

\* no two paragraphs of the input are the same text
DistinctParagraphs ==
    LET paragraphs == ParagraphsOf(result.value.text) IN
    \A i, j \in 1..Len(paragraphs) : i # j => paragraphs[i] # paragraphs[j]

\* C18: every chunk of the paragraph loop holds a paragraph that the chunk
\* emitted before it does not hold (stated for inputs whose paragraphs are
\* all different, where a paragraph is told by its text), so that no two
\* consecutive chunks have the same text and chunk_id
C18_ChunkAddsAParagraph ==
    (Split /\ DistinctParagraphs) =>
        \A k \in 2..Len(result.value.chunks) :
            /\ ~(Range(ParagraphsOf(result.value.chunks[k].text))
                   \subseteq Range(ParagraphsOf(result.value.chunks[k - 1].text)))
            /\ ~(/\ result.value.chunks[k].text = result.value.chunks[k - 1].text
                 /\ result.value.chunks[k].chunk_id
                      = result.value.chunks[k - 1].chunk_id)

\* the processes that ingested, and those that cleared
Ingesters == {w \in Workers : workers[w].op = "ingest_documents"}
Clearers == {w \in Workers : workers[w].op = "clear_index"}

\* C16: two operations (two ingests, or an ingest and a clear_index) on one
\* persistence location have an interleaving after which the persisted state
\* has lost the records of a finished operation or holds an index and a
\* sidecar of different sizes. In the interleaving of SpecInterleaved, whatever
\* the two operations ingest and whatever the location held before, the
\* artifacts end as the index of process 2 and the sidecar of process 1; after
\* two ingests the sidecar holds fewer records than the records loaded and
\* the records the two ingests added, and after an ingest and a clear_index
\* the index and the sidecar hold different numbers of entries
C16_InterleavingLoses ==
    BothDone =>
        /\ fileIndex = SavedIndex(workers[2].index)
        /\ fileMeta = SavedMeta(workers[1].metadata)
        /\ Ingesters = Workers => PersistedRecords < Outcome.wanted
        /\ Clearers # {} => PersistedVectors # PersistedRecords

\* an ingest and a clear_index have finished and left an index and a sidecar
\* of different sizes, at a location where two ingests had finished before
\* and left fewer records than they had added
C16_Witness ==
    /\ BothDone
    /\ Ingesters # {}
    /\ Clearers # {}
    /\ fileIndex.state = "valid"
    /\ fileMeta.state = "valid"
    /\ PersistedVectors # PersistedRecords
    /\ \E before \in Range(workers[1].earlier) :
        /\ \A w \in Workers : before.ops[w] = "ingest_documents"
        /\ before.records < before.wanted

====
